---- MODULE Spec2Model ----
(***************************************************************************)
(* The relay server of src/server.js: the registry of connected Raspberry  *)
(* Pis (connectedPis), the register / ping / health handlers, the two      *)
(* forwarding handlers (POST /api/alexa and POST /alexa), whose bodies are *)
(* split at their `await axios.post`, and the stale-client sweep.          *)
(*                                                                         *)
(* Time is discrete and counted in units of the stale threshold            *)
(* (5 * 60 * 1000 ms): new Date() is the variable now and staleThreshold   *)
(* is 1.  The sweep timer (every 60 * 1000 ms) fires several times per     *)
(* unit: the sweep may run at any moment, and the clock does not advance   *)
(* before it has run at the current time.  A forward may succeed or fail   *)
(* at any moment after it was sent (the 5000 ms timeout is one way to      *)
(* fail).                                                                  *)
(***************************************************************************)
EXTENDS Integers, FiniteSets, Sequences, Bags, TLC

VARIABLES
    connectedPis,   \* own properties of the object connectedPis: id -> entry
    objectUrl,      \* the property url of the function Object, which
                    \* connectedPis["constructor"] yields while the registry
                    \* has no own property of that name
    now,            \* the clock read by new Date()
    swept,          \* the setInterval callback has run at the current time
    inflight,       \* the forwards suspended at await axios.post (a bag)
    resp,           \* the response sent by the latest step, NoResponse if none
    env             \* process.env: API_KEY and DEFAULT_RASPBERRY_PI_URL

vars == <<connectedPis, objectUrl, now, swept, inflight, resp, env>>

----------------------------------------------------------------------------
(* Bounds of the model *)

MaxTime == 2
MaxInFlight == 1
\* Forwards awaited at the same time in the specification that studies
\* requests arriving while forwards are pending
MaxPending == 2

----------------------------------------------------------------------------
(* Values *)

\* JavaScript's undefined: a missing header, body field or property
Undefined == "<undefined>"

\* An absent own property of connectedPis
NoEntry == [url |-> Undefined, name |-> Undefined, lastSeen |-> -1]

\* JavaScript truthiness of a string-or-undefined value
Truthy(x) == x # Undefined /\ x # ""

\* Ids that requests name.  "default" is the id both forwarding handlers fall
\* back to; "constructor" is the name of a property every plain object
\* inherits from Object.prototype.
ClientIds == {"default", "pi-2", "constructor"}

\* The property names the registry is indexed with: a body may also carry
\* an empty or a missing clientId
RegistryKeys == ClientIds \cup {"", Undefined}

\* Names that connectedPis = {} inherits: connectedPis[k] is an object (the
\* function Object) and hence truthy even without an own property k
InheritedKeys == {"constructor"}

Urls == {"http://pi-a", "http://pi-b"}
Names == {"Porch"}

\* What a request may carry where the handler expects a string
Opt(S) == S \cup {Undefined}

\* 5 * 60 * 1000 ms, the unit of time
staleThreshold == 1

HardDefaultUrl == "http://localhost:5000"

NoResponse == [route |-> "none"]

----------------------------------------------------------------------------
(* Registry lookups *)

\* connectedPis has an own property clientId
HasOwn(clientId) == connectedPis[clientId] # NoEntry

\* The truthiness of the expression connectedPis[clientId]
Present(clientId) == HasOwn(clientId) \/ clientId \in InheritedKeys

\* connectedPis[clientId].url, for a truthy connectedPis[clientId]
EntryUrl(clientId) ==
    IF HasOwn(clientId) THEN connectedPis[clientId].url ELSE objectUrl

\* process.env.DEFAULT_RASPBERRY_PI_URL || 'http://localhost:5000'
DefaultUrl ==
    IF Truthy(env.DEFAULT_RASPBERRY_PI_URL)
    THEN env.DEFAULT_RASPBERRY_PI_URL
    ELSE HardDefaultUrl

\* Mutant: the registry is not consulted
getRaspberryPiUrlDefaultOnly(clientId) == DefaultUrl

getRaspberryPiUrl(clientId) ==
    IF Truthy(clientId) /\ Present(clientId)
    THEN EntryUrl(clientId)
    ELSE DefaultUrl

\* Object.keys(connectedPis)
Keys == {c \in RegistryKeys : connectedPis[c] # NoEntry}

\* Mutant: the key is compared only when the server has one configured
authenticateApiIfConfigured(apiKey) ==
    ~(Truthy(env.API_KEY) /\ apiKey # env.API_KEY)

\* if (!apiKey || apiKey !== process.env.API_KEY) return 401
authenticateApi(apiKey) == ~(~Truthy(apiKey) \/ apiKey # env.API_KEY)

----------------------------------------------------------------------------
(* Handlers *)

Unauthorized(route) == [route |-> route, status |-> 401, error |-> "Unauthorized"]

Health ==
    /\ resp' = [route |-> "/health", status |-> 200,
                connectedClients |-> Cardinality(Keys)]
    /\ UNCHANGED <<connectedPis, objectUrl, now, swept, inflight, env>>

\* Mutant: the clientId is not validated
MissingUrlOnly(clientId, url) == ~Truthy(url)

\* Mutant: the url is not validated
MissingClientIdOnly(clientId, url) == ~Truthy(clientId)

\* if (!clientId || !url)
MissingParameters(clientId, url) == ~Truthy(clientId) \/ ~Truthy(url)

\* The object literal both handlers store for a new client
NewEntry(url, name) ==
    [url |-> url,
     name |-> IF Truthy(name) THEN name ELSE "Unnamed Pi",
     lastSeen |-> now]

Register(apiKey, clientId, url, name) ==
    /\ IF ~authenticateApi(apiKey)
       THEN /\ resp' = Unauthorized("/api/register")
            /\ UNCHANGED connectedPis
       ELSE IF MissingParameters(clientId, url)
       THEN /\ resp' = [route |-> "/api/register", status |-> 400,
                        error |-> "Missing required parameters"]
            /\ UNCHANGED connectedPis
       ELSE /\ connectedPis' = [connectedPis EXCEPT ![clientId] = NewEntry(url, name)]
            /\ resp' = [route |-> "/api/register", status |-> 200,
                        success |-> TRUE]
    /\ UNCHANGED <<objectUrl, now, swept, inflight, env>>

\* Mutant: an omitted name falls back to the placeholder, as on creation
PingUpdateResetsName(entry, url, name) ==
    [url |-> IF Truthy(url) THEN url ELSE entry.url,
     name |-> IF Truthy(name) THEN name ELSE "Unnamed Pi",
     lastSeen |-> now]

\* The else-if branch of the ping handler on an own entry: lastSeen is
\* refreshed, url and name overwritten only when supplied
PingUpdate(entry, url, name) ==
    [url |-> IF Truthy(url) THEN url ELSE entry.url,
     name |-> IF Truthy(name) THEN name ELSE entry.name,
     lastSeen |-> now]

\* Mutant: an unknown id is created whether or not a url came with it
PingCreatesWithoutUrl(clientId, url) == ~Present(clientId)

\* if (!connectedPis[clientId] && url)
PingCreates(clientId, url) == ~Present(clientId) /\ Truthy(url)

Ping(apiKey, clientId, url, name) ==
    /\ IF ~authenticateApi(apiKey)
       THEN /\ resp' = Unauthorized("/api/ping")
            /\ UNCHANGED <<connectedPis, objectUrl>>
       ELSE IF ~Truthy(clientId)
       THEN /\ resp' = [route |-> "/api/ping", status |-> 400,
                        error |-> "Missing client ID"]
            /\ UNCHANGED <<connectedPis, objectUrl>>
       ELSE /\ IF PingCreates(clientId, url)
               THEN /\ connectedPis' = [connectedPis EXCEPT ![clientId] = NewEntry(url, name)]
                    /\ UNCHANGED objectUrl
               ELSE IF HasOwn(clientId)
               THEN /\ connectedPis' = [connectedPis EXCEPT ![clientId] =
                           PingUpdate(connectedPis[clientId], url, name)]
                    /\ UNCHANGED objectUrl
               ELSE IF Present(clientId)
               \* connectedPis[clientId] is the inherited function Object: the
               \* handler writes Object.lastSeen and Object.url; the write to
               \* the read-only Object.name is ignored.  Object.lastSeen is
               \* read by no code and is not kept.
               THEN /\ objectUrl' = IF Truthy(url) THEN url ELSE objectUrl
                    /\ UNCHANGED connectedPis
               ELSE UNCHANGED <<connectedPis, objectUrl>>
            /\ resp' = [route |-> "/api/ping", status |-> 200, success |-> TRUE]
    /\ UNCHANGED <<now, swept, inflight, env>>

----------------------------------------------------------------------------
(* POST /api/alexa: the generic forward *)

ApiForwards == {f \in BagToSet(inflight) : f.route = "/api/alexa"}

\* Up to the await: authentication, the choice of the client id, the lookup
\* of the address and the outbound axios.post
\* of at most `limit` forwards at a time
ApiAlexaWithin(limit, apiKey, clientIdHeader) ==
    /\ IF ~authenticateApi(apiKey)
       THEN /\ resp' = Unauthorized("/api/alexa")
            /\ UNCHANGED inflight
       ELSE /\ BagCardinality(inflight) < limit
            /\ LET clientId == IF Truthy(clientIdHeader)
                               THEN clientIdHeader ELSE "default"
               IN  inflight' = inflight (+) SetToBag({
                       [route |-> "/api/alexa", clientId |-> clientId,
                        url |-> getRaspberryPiUrl(clientId)]})
            /\ resp' = NoResponse
    /\ UNCHANGED <<connectedPis, objectUrl, now, swept, env>>

ApiAlexa(apiKey, clientIdHeader) ==
    ApiAlexaWithin(MaxInFlight, apiKey, clientIdHeader)

\* connectedPis[clientId].lastSeen = new Date(), when connectedPis[clientId]
\* is an own entry (the write to the inherited Object.lastSeen is not kept)
Touch(clientId) ==
    IF HasOwn(clientId)
    THEN [connectedPis EXCEPT ![clientId].lastSeen = now]
    ELSE connectedPis

\* Mutant: the completion stores an entry for the id it was sent for
ApiAlexaSuccessUpserts(f, status) ==
    /\ f \in ApiForwards
    /\ inflight' = inflight (-) SetToBag({f})
    /\ connectedPis' = IF HasOwn(f.clientId) THEN Touch(f.clientId)
                       ELSE [connectedPis EXCEPT ![f.clientId] =
                                [url |-> f.url, name |-> "Unnamed Pi",
                                 lastSeen |-> now]]
    /\ resp' = [route |-> "/api/alexa", status |-> status, relayed |-> TRUE]
    /\ UNCHANGED <<objectUrl, now, swept, env>>

\* The await resolves: the backend answered with a 2xx status
ApiAlexaSuccess(f, status) ==
    /\ f \in ApiForwards
    /\ inflight' = inflight (-) SetToBag({f})
    /\ connectedPis' = IF Present(f.clientId) THEN Touch(f.clientId)
                       ELSE connectedPis
    /\ resp' = [route |-> "/api/alexa", status |-> status, relayed |-> TRUE]
    /\ UNCHANGED <<objectUrl, now, swept, env>>

\* Mutant: a client whose forward failed is dropped from the registry
ApiAlexaFailForgetsClient(f) ==
    /\ f \in ApiForwards
    /\ inflight' = inflight (-) SetToBag({f})
    /\ connectedPis' = [connectedPis EXCEPT ![f.clientId] = NoEntry]
    /\ resp' = [route |-> "/api/alexa", status |-> 500,
                error |-> "Failed to communicate with the surveillance system"]
    /\ UNCHANGED <<objectUrl, now, swept, env>>

\* The await rejects: timeout, connection failure or a non-2xx status
ApiAlexaFail(f) ==
    /\ f \in ApiForwards
    /\ inflight' = inflight (-) SetToBag({f})
    /\ resp' = [route |-> "/api/alexa", status |-> 500,
                error |-> "Failed to communicate with the surveillance system"]
    /\ UNCHANGED <<connectedPis, objectUrl, now, swept, env>>

----------------------------------------------------------------------------
(* POST /alexa: the assistant endpoint *)

KnownSlots == {"CameraNumber", "FirstCamera", "SecondCamera", "AllCameras"}
SlotNames == KnownSlots \cup {"Room"}

\* Mutant: the show-all intent is not among the forwarded ones
CameraIntentsOpenClose == {"OpenCameraIntent", "CloseCameraIntent"}

CameraIntents == {"OpenCameraIntent", "CloseCameraIntent", "ShowAllCamerasIntent"}

\* slots.X && slots.X.value, for a request whose slot X is missing
\* (Undefined) or carries a value
NoSlots == [s \in SlotNames |-> Undefined]

\* The slot-extraction block: only the two intents of the first if-statement
\* copy slots, and only the four known ones with a truthy value
ExtractSlots(intentName, slots) ==
    IF intentName \in {"OpenCameraIntent", "CloseCameraIntent"}
    THEN [s \in {k \in KnownSlots : Truthy(slots[k])} |-> slots[s]]
    ELSE [s \in {} |-> Undefined]

Has(S, k) == k \in DOMAIN S /\ Truthy(S[k])

\* Mutant: the pair of cameras is looked at before the single camera
SpeechPairFirst(intentData) ==
    LET S == intentData.slots
        verb == IF intentData.intent = "OpenCameraIntent"
                THEN "Displaying" ELSE "Hiding"
    IN  IF intentData.intent \in {"OpenCameraIntent", "CloseCameraIntent"}
        THEN IF Has(S, "FirstCamera") /\ Has(S, "SecondCamera")
             THEN verb \o " cameras " \o S["FirstCamera"] \o " and "
                       \o S["SecondCamera"] \o "."
             ELSE IF Has(S, "CameraNumber")
             THEN verb \o " camera " \o S["CameraNumber"] \o "."
             ELSE verb \o " all cameras."
        ELSE IF intentData.intent = "ShowAllCamerasIntent"
        THEN "Displaying all cameras."
        ELSE ""

\* The speech composed after a successful forward
Speech(intentData) ==
    LET S == intentData.slots
        verb == IF intentData.intent = "OpenCameraIntent"
                THEN "Displaying" ELSE "Hiding"
    IN  IF intentData.intent \in {"OpenCameraIntent", "CloseCameraIntent"}
        THEN IF Has(S, "CameraNumber")
             THEN verb \o " camera " \o S["CameraNumber"] \o "."
             ELSE IF Has(S, "FirstCamera") /\ Has(S, "SecondCamera")
             THEN verb \o " cameras " \o S["FirstCamera"] \o " and "
                       \o S["SecondCamera"] \o "."
             ELSE verb \o " all cameras."
        ELSE IF intentData.intent = "ShowAllCamerasIntent"
        THEN "Displaying all cameras."
        ELSE ""

AlexaReply(status, text, shouldEndSession) ==
    [route |-> "/alexa", status |-> status, text |-> text,
     shouldEndSession |-> shouldEndSession]

WelcomeText == "Welcome to Surveillance Camera. You can say things like, display camera 1, or hide all cameras."
HelpText == "You can say things like, display camera 1, display cameras 1 and 2, or hide all cameras. How can I help?"
ApologyText == "Sorry, there was a problem connecting to the surveillance system."

AlexaForwards == {f \in BagToSet(inflight) : f.route = "/alexa"}

\* Up to the await (or to the response, for a request that is not
\* forwarded), of at most `limit` forwards at a time
AlexaWithin(limit, request) ==
    /\ IF ~Truthy(request.type)
       THEN /\ resp' = AlexaReply(400, "Invalid request format.", TRUE)
            /\ UNCHANGED inflight
       ELSE IF request.type = "LaunchRequest"
       THEN /\ resp' = AlexaReply(200, WelcomeText, FALSE)
            /\ UNCHANGED inflight
       ELSE IF request.type = "IntentRequest"
       THEN IF ~Truthy(request.intent)
            THEN /\ resp' = AlexaReply(400, "I couldn't understand your request.", FALSE)
                 /\ UNCHANGED inflight
            ELSE IF request.intent \in CameraIntents
            THEN /\ BagCardinality(inflight) < limit
                 /\ inflight' = inflight (+) SetToBag({
                        [route |-> "/alexa", clientId |-> "default",
                         url |-> getRaspberryPiUrl("default"),
                         intentData |-> [intent |-> request.intent,
                             slots |-> ExtractSlots(request.intent, request.slots)]]})
                 /\ resp' = NoResponse
            ELSE IF request.intent = "AMAZON.HelpIntent"
            THEN /\ resp' = AlexaReply(200, HelpText, FALSE)
                 /\ UNCHANGED inflight
            ELSE IF request.intent \in {"AMAZON.CancelIntent", "AMAZON.StopIntent"}
            THEN /\ resp' = AlexaReply(200, "Goodbye!", TRUE)
                 /\ UNCHANGED inflight
            ELSE /\ resp' = AlexaReply(200, "", FALSE)
                 /\ UNCHANGED inflight
       ELSE IF request.type = "SessionEndedRequest"
       THEN /\ resp' = [route |-> "/alexa", status |-> 200, empty |-> TRUE]
            /\ UNCHANGED inflight
       ELSE /\ resp' = AlexaReply(200, "I'm not sure how to help with that.", FALSE)
            /\ UNCHANGED inflight
    /\ UNCHANGED <<connectedPis, objectUrl, now, swept, env>>

Alexa(request) == AlexaWithin(MaxInFlight, request)

\* The inner await resolves
AlexaSuccess(f) ==
    /\ f \in AlexaForwards
    /\ inflight' = inflight (-) SetToBag({f})
    /\ resp' = AlexaReply(200, Speech(f.intentData), FALSE)
    /\ UNCHANGED <<connectedPis, objectUrl, now, swept, env>>

\* Mutant: the failure is passed on as an error status
AlexaFailAnswers500(f) ==
    /\ f \in AlexaForwards
    /\ inflight' = inflight (-) SetToBag({f})
    /\ resp' = AlexaReply(500, ApologyText, FALSE)
    /\ UNCHANGED <<connectedPis, objectUrl, now, swept, env>>

\* The inner await rejects
AlexaFail(f) ==
    /\ f \in AlexaForwards
    /\ inflight' = inflight (-) SetToBag({f})
    /\ resp' = AlexaReply(200, ApologyText, FALSE)
    /\ UNCHANGED <<connectedPis, objectUrl, now, swept, env>>

----------------------------------------------------------------------------
(* The stale-client sweep and the clock *)

\* Mutant: an entry is stale as soon as it is staleThreshold old
StaleAtThreshold(client) == now - client.lastSeen >= staleThreshold

\* Mutant: the age is taken from the start of the server
StaleSinceStart(client) == now > staleThreshold

\* Mutant: the operands of the subtraction are swapped
StaleReversed(client) == client.lastSeen - now > staleThreshold

\* now - client.lastSeen > staleThreshold
Stale(client) == now - client.lastSeen > staleThreshold

\* Mutant: the callback is scheduled once, at start-up, and never again
SweepOnce ==
    /\ now = 0
    /\ connectedPis' = [c \in RegistryKeys |->
           IF c \in Keys /\ Stale(connectedPis[c]) THEN NoEntry
           ELSE connectedPis[c]]
    /\ swept' = TRUE
    /\ resp' = NoResponse
    /\ UNCHANGED <<objectUrl, now, inflight, env>>

\* Mutant: the callback does its work only while no forward is awaited
SweepWhenIdle ==
    /\ inflight = EmptyBag
    /\ connectedPis' = [c \in RegistryKeys |->
           IF c \in Keys /\ Stale(connectedPis[c]) THEN NoEntry
           ELSE connectedPis[c]]
    /\ swept' = TRUE
    /\ resp' = NoResponse
    /\ UNCHANGED <<objectUrl, now, inflight, env>>

Sweep ==
    /\ connectedPis' = [c \in RegistryKeys |->
           IF c \in Keys /\ Stale(connectedPis[c]) THEN NoEntry
           ELSE connectedPis[c]]
    /\ swept' = TRUE
    /\ resp' = NoResponse
    /\ UNCHANGED <<objectUrl, now, inflight, env>>

\* Time passes, once the timer callback has run
Tick ==
    /\ now < MaxTime
    /\ swept
    /\ now' = now + 1
    /\ swept' = FALSE
    /\ resp' = NoResponse
    /\ UNCHANGED <<connectedPis, objectUrl, inflight, env>>

----------------------------------------------------------------------------
(* Requests the model sends *)

Request(type, intent, slots) == [type |-> type, intent |-> intent, slots |-> slots]

Requests ==
    {Request(Undefined, Undefined, NoSlots),
     Request("IntentRequest", "AMAZON.StopIntent", NoSlots),
     Request("IntentRequest", "OpenCameraIntent",
             [NoSlots EXCEPT !["CameraNumber"] = "1", !["Room"] = "2"])}

BackendStatuses == {200}

\* process.env as the server may be started: nothing configured, or both
\* the key and the default address
Environments ==
    {[API_KEY |-> Undefined, DEFAULT_RASPBERRY_PI_URL |-> Undefined],
     [API_KEY |-> "secret", DEFAULT_RASPBERRY_PI_URL |-> "http://pi-default"]}

Init ==
    /\ connectedPis = [c \in RegistryKeys |-> NoEntry]
    /\ objectUrl = Undefined
    /\ now = 0
    /\ swept = FALSE
    /\ inflight = EmptyBag
    /\ resp = NoResponse
    /\ env \in Environments

\* The bodies sent with the key "secret", and one body with each other key.
\* Devices register and ping under the ids "default" and "pi-2"; bodies
\* with an empty or a missing clientId, or with an empty url, differ in
\* nothing else.
Bodies ==
    [clientId : ClientIds \ InheritedKeys, url : Opt(Urls), name : Opt(Names)]
    \cup [clientId : {Undefined, ""}, url : {"http://pi-a"}, name : {Undefined}]
    \cup [clientId : {"default"}, url : {""}, name : {Undefined}]
SomeBody == [clientId |-> "default", url |-> "http://pi-a", name |-> Undefined]
RegisterPosts == ({"secret"} \X Bodies) \cup ({Undefined, "wrong"} \X {SomeBody})

\* The inherited name "constructor" is sent as the id of a ping without url
\* and as the x-client-id of a forward
PingPosts ==
    RegisterPosts \cup
    ({"secret"} \X [clientId : InheritedKeys, url : {Undefined}, name : {Undefined}])

\* x-api-key and x-client-id of the requests to POST /api/alexa
ForwardHeaders ==
    ({"secret"} \X {Undefined, "default", "constructor"})
    \cup ({Undefined, "wrong"} \X {"default"})

Next ==
    \/ Health
    \/ \E p \in RegisterPosts : Register(p[1], p[2].clientId, p[2].url, p[2].name)
    \/ \E p \in PingPosts : Ping(p[1], p[2].clientId, p[2].url, p[2].name)
    \/ \E h \in ForwardHeaders : ApiAlexa(h[1], h[2])
    \/ \E f \in ApiForwards, status \in BackendStatuses : ApiAlexaSuccess(f, status)
    \/ \E f \in ApiForwards : ApiAlexaFail(f)
    \/ \E request \in Requests : Alexa(request)
    \/ \E f \in AlexaForwards : AlexaSuccess(f)
    \/ \E f \in AlexaForwards : AlexaFail(f)
    \/ Sweep
    \/ Tick

Spec == Init /\ [][Next]_vars

----------------------------------------------------------------------------
(* The server with several forwards awaited at once: two devices, one body
   each, and one request per forwarding route *)

PendingPosts ==
    {<<"secret", [clientId |-> "default", url |-> "http://pi-a", name |-> Undefined]>>,
     <<"secret", [clientId |-> "pi-2", url |-> "http://pi-b", name |-> Undefined]>>}
PendingHeaders == {<<"secret", "default">>}
PendingRequests == {Request("IntentRequest", "ShowAllCamerasIntent", NoSlots)}

NextPending ==
    \/ Health
    \/ \E p \in PendingPosts : Register(p[1], p[2].clientId, p[2].url, p[2].name)
    \/ \E p \in PendingPosts : Ping(p[1], p[2].clientId, p[2].url, p[2].name)
    \/ \E h \in PendingHeaders : ApiAlexaWithin(MaxPending, h[1], h[2])
    \/ \E f \in ApiForwards, status \in BackendStatuses : ApiAlexaSuccess(f, status)
    \/ \E f \in ApiForwards : ApiAlexaFail(f)
    \/ \E request \in PendingRequests : AlexaWithin(MaxPending, request)
    \/ \E f \in AlexaForwards : AlexaSuccess(f)
    \/ \E f \in AlexaForwards : AlexaFail(f)
    \/ Sweep
    \/ Tick

SpecPending == Init /\ [][NextPending]_vars

----------------------------------------------------------------------------
(* The assistant endpoint under every kind of request: each request type,
   each intent name, and for the camera intents each combination of
   populated, empty and missing slots *)

SlotMaps ==
    [CameraNumber : {Undefined, "", "1"}, FirstCamera : {Undefined, "1"},
     SecondCamera : {Undefined, "2"}, AllCameras : {Undefined, "all"},
     Room : {Undefined, "2"}]

AssistantRequests ==
    {Request(t, Undefined, NoSlots) :
        t \in {Undefined, "LaunchRequest", "IntentRequest",
               "SessionEndedRequest", "CanFulfillIntentRequest"}}
    \cup {Request("IntentRequest", i, NoSlots) :
            i \in {"AMAZON.HelpIntent", "AMAZON.CancelIntent",
                   "AMAZON.StopIntent", "AMAZON.FallbackIntent"}}
    \cup {Request("IntentRequest", i, s) :
            i \in {"OpenCameraIntent", "CloseCameraIntent",
                   "ShowAllCamerasIntent"},
            s \in SlotMaps}

\* The device "default" may have registered
AssistantPosts ==
    {<<"secret", [clientId |-> "default", url |-> "http://pi-a", name |-> Undefined]>>}

NextAssistant ==
    \/ \E p \in AssistantPosts : Register(p[1], p[2].clientId, p[2].url, p[2].name)
    \/ \E request \in AssistantRequests : Alexa(request)
    \/ \E f \in AlexaForwards : AlexaSuccess(f)
    \/ \E f \in AlexaForwards : AlexaFail(f)

SpecAssistant == Init /\ [][NextAssistant]_vars

\* setInterval fires the callback every minute for as long as the process
\* runs, and the clock advances
SpecFair == SpecPending /\ WF_vars(Sweep) /\ WF_vars(Tick)

----------------------------------------------------------------------------
(* Claims *)

RegisterOf(p) == Register(p[1], p[2].clientId, p[2].url, p[2].name)
PingOf(p) == Ping(p[1], p[2].clientId, p[2].url, p[2].name)

\* C1: after a register call with non-empty clientId and url has succeeded,
\* getRaspberryPiUrl(clientId) is that url, and the address an id with an
\* entry resolves to changes only by a register or ping that supplies a
\* different url for that id or by the sweep evicting the entry, whatever
\* happens to the other ids.
C1_RegisterThenResolve ==
    [][ /\ \A p \in RegisterPosts :
             (resp'.route = "/api/register" /\ resp'.status = 200 /\ RegisterOf(p))
             => getRaspberryPiUrl(p[2].clientId)' = p[2].url
        /\ \A c \in ClientIds :
             (HasOwn(c) /\ getRaspberryPiUrl(c)' # getRaspberryPiUrl(c))
             => \/ Sweep /\ ~HasOwn(c)'
                \/ \E p \in PingPosts :
                     /\ p[2].clientId = c
                     /\ Truthy(p[2].url)
                     /\ p[2].url # connectedPis[c].url
                     /\ RegisterOf(p) \/ PingOf(p)
                     /\ getRaspberryPiUrl(c)' = p[2].url
      ]_vars

\* A register has just succeeded at a later time than another id's entry,
\* and both ids resolve to their own addresses
C1_Witness ==
    /\ resp.route = "/api/register" /\ resp.status = 200
    /\ HasOwn("default") /\ connectedPis["default"].lastSeen < now
    /\ HasOwn("pi-2") /\ connectedPis["pi-2"].lastSeen = now
    /\ getRaspberryPiUrl("pi-2") = "http://pi-b"
    /\ getRaspberryPiUrl("default") = "http://pi-a"

\* C2: a sweep removes every entry with now - lastSeen > staleThreshold and
\* leaves every other entry present with url, name and lastSeen unchanged.
C2_SweepEvictsExactlyStale ==
    [][ Sweep =>
          \A c \in RegistryKeys :
             IF HasOwn(c) /\ now - connectedPis[c].lastSeen > staleThreshold
             THEN ~HasOwn(c)'
             ELSE connectedPis'[c] = connectedPis[c]
      ]_vars

\* The sweep has run at time 2, "default" was evicted while a forward sent
\* to its address is still in flight, and "pi-2", seen at time 1, is kept
C2_Witness ==
    /\ swept /\ now = 2 /\ resp = NoResponse
    /\ ~HasOwn("default")
    /\ \E f \in BagToSet(inflight) : f.clientId = "default" /\ f.url \in Urls
    /\ HasOwn("pi-2") /\ connectedPis["pi-2"].lastSeen = 1

\* C3: a ping with a valid key and a non-empty clientId that has no entry,
\* sent without url, changes no entry of the registry and answers 200.
C3_PingUnknownWithoutUrl ==
    [][ \A p \in PingPosts :
          ( /\ resp'.route = "/api/ping"
            /\ authenticateApi(p[1])
            /\ Truthy(p[2].clientId)
            /\ ~HasOwn(p[2].clientId)
            /\ ~Truthy(p[2].url)
            /\ PingOf(p) )
          => connectedPis' = connectedPis /\ resp'.status = 200
      ]_vars

\* A ping has been answered 200 and the registry is empty
C3_Witness ==
    /\ resp.route = "/api/ping" /\ resp.status = 200
    /\ Keys = {}

\* C4: a ping for an id that has an entry sets the entry's lastSeen to now,
\* its url to the url sent if one was sent, its name to the name sent if one
\* was sent, keeps the fields not sent and leaves the other entries alone.
C4_PingKnownPartialUpdate ==
    [][ (resp'.route = "/api/ping" /\ resp'.status = 200) =>
        \A p \in PingPosts :
          LET c == p[2].clientId
          IN  ( /\ HasOwn(c)
                /\ Truthy(c)
                /\ authenticateApi(p[1])
                /\ PingOf(p) )
              => /\ connectedPis'[c].lastSeen = now
                 /\ connectedPis'[c].url =
                        IF Truthy(p[2].url) THEN p[2].url ELSE connectedPis[c].url
                 /\ connectedPis'[c].name =
                        IF Truthy(p[2].name) THEN p[2].name ELSE connectedPis[c].name
                 /\ \A d \in RegistryKeys \ {c} : connectedPis'[d] = connectedPis[d]
      ]_vars

\* A ping has been answered at time 2 while both ids have an entry: "pi-2"
\* keeps the name it was given and was seen now, "default" was seen earlier
C4_Witness ==
    /\ resp.route = "/api/ping" /\ resp.status = 200 /\ now = 2
    /\ HasOwn("pi-2") /\ connectedPis["pi-2"].name = "Porch"
    /\ connectedPis["pi-2"].lastSeen = now
    /\ HasOwn("default") /\ connectedPis["default"].lastSeen = 1

\* C5: getRaspberryPiUrl(clientId) is the url of the entry of clientId when
\* the registry has one, and the configured default address otherwise.
C5_ResolveEntryOrDefault ==
    \A c \in ClientIds :
        getRaspberryPiUrl(c) = IF HasOwn(c) THEN connectedPis[c].url ELSE DefaultUrl

\* C6: every entry of the registry has a non-empty clientId and a non-empty
\* url.
C6_EntriesHaveIdAndUrl ==
    \A c \in Keys : Truthy(c) /\ Truthy(connectedPis[c].url)

\* Both ids have an entry, one created earlier than the other
C6_Witness ==
    /\ HasOwn("default") /\ HasOwn("pi-2")
    /\ connectedPis["default"].lastSeen # connectedPis["pi-2"].lastSeen

\* C7: lastSeen of an entry is set to the current time by every register,
\* by every ping and by every successful forward that was sent to the
\* entry's address, from POST /api/alexa and from POST /alexa alike.
C7_LastSeenOnEveryContact ==
    [][ /\ \A p \in PingPosts :
             LET c == p[2].clientId
             IN  ( /\ resp'.route \in {"/api/register", "/api/ping"}
                   /\ resp'.status = 200
                   /\ HasOwn(c)'
                   /\ RegisterOf(p) \/ PingOf(p) )
                 => connectedPis'[c].lastSeen = now
        /\ \A f \in BagToSet(inflight) :
             ( /\ inflight' # inflight
               /\ HasOwn(f.clientId)
               /\ f.url = connectedPis[f.clientId].url
               /\ \/ \E status \in BackendStatuses : ApiAlexaSuccess(f, status)
                  \/ AlexaSuccess(f) )
             => connectedPis'[f.clientId].lastSeen = now
      ]_vars

\* C8: when the outbound forward fails, POST /api/alexa answers 500 with an
\* error payload and POST /alexa answers 200 with the apology speech and
\* shouldEndSession false; either way the request is answered and its
\* forward is no longer pending.
C8_ForwardFailureResponses ==
    [][ \A f \in BagToSet(inflight) :
          /\ (inflight' # inflight /\ ApiAlexaFail(f))
             => /\ resp'.route = "/api/alexa"
                /\ resp'.status = 500
                /\ "error" \in DOMAIN resp'
                /\ inflight' = inflight (-) SetToBag({f})
          /\ (inflight' # inflight /\ AlexaFail(f))
             => /\ resp'.route = "/alexa"
                /\ resp'.status = 200
                /\ resp'.text = ApologyText
                /\ resp'.shouldEndSession = FALSE
                /\ inflight' = inflight (-) SetToBag({f})
      ]_vars

\* The assistant endpoint has apologised for a forward that was sent to the
\* address of a registered device
C8_Witness ==
    /\ resp.route = "/alexa" /\ resp.status = 200 /\ resp.text = ApologyText
    /\ HasOwn("default")
    /\ inflight = EmptyBag

\* C9: a step sends at most one outbound forward, and none when it answers
\* a request; a forward that fails is removed from the pending forwards, is
\* not sent again and leaves every entry of the registry as it is at that
\* moment.
C9_FailedForwardNoRetryNoRollback ==
    [][ /\ BagCardinality(inflight') <= BagCardinality(inflight) + 1
        /\ resp' # NoResponse => BagCardinality(inflight') <= BagCardinality(inflight)
        /\ \A f \in BagToSet(inflight) :
             (inflight' # inflight /\ (ApiAlexaFail(f) \/ AlexaFail(f)))
             => /\ inflight' = inflight (-) SetToBag({f})
                /\ connectedPis' = connectedPis
                /\ objectUrl' = objectUrl
      ]_vars

\* The generic endpoint has answered 500 at a time later than the last
\* contact of "default", whose entry is still in place
C9_Witness ==
    /\ resp.route = "/api/alexa" /\ resp.status = 500
    /\ HasOwn("default") /\ connectedPis["default"].lastSeen < now
    /\ inflight = EmptyBag

\* C10: an entry leaves the registry only in a step of the sweep, and only
\* if now - lastSeen exceeds staleThreshold in that step.
C10_OnlyStaleSweepRemoves ==
    [][ \A c \in RegistryKeys :
          (HasOwn(c) /\ ~HasOwn(c)')
          => Sweep /\ now - connectedPis[c].lastSeen > staleThreshold
      ]_vars

\* Both devices have been evicted: the registry is empty after the sweep
\* while a forward sent to a registered address is still pending
C10_Witness ==
    /\ swept /\ Keys = {}
    /\ \E f \in BagToSet(inflight) : f.url \in Urls

\* C11: with a valid key, a register whose clientId or url is empty or
\* missing and a ping whose clientId is empty or missing are answered 400
\* and change nothing in the registry.
C11_InvalidInputRejected ==
    [][ /\ resp'.route = "/api/register" =>
             \A p \in RegisterPosts :
               ( /\ p[2].clientId \in {Undefined, ""} \/ p[2].url \in {Undefined, ""}
                 /\ p[1] = env.API_KEY
                 /\ RegisterOf(p) )
               => /\ resp'.status = 400
                  /\ connectedPis' = connectedPis
                  /\ objectUrl' = objectUrl
        /\ resp'.route = "/api/ping" =>
             \A p \in PingPosts :
               ( /\ p[2].clientId \in {Undefined, ""}
                 /\ p[1] = env.API_KEY
                 /\ PingOf(p) )
               => /\ resp'.status = 400
                  /\ connectedPis' = connectedPis
                  /\ objectUrl' = objectUrl
      ]_vars

\* A register has been answered 400 while the registry holds an entry that
\* was last seen earlier
C11_Witness ==
    /\ resp.route = "/api/register" /\ resp.status = 400
    /\ HasOwn("default") /\ connectedPis["default"].lastSeen < now

\* C12: a request to POST /api/register, /api/ping or /api/alexa whose
\* x-api-key is missing or differs from process.env.API_KEY is answered 401,
\* changes nothing in the registry and sends no forward, also when the
\* server has no API_KEY.
C12_UnauthorizedRejected ==
    [][ /\ resp'.route \in {"/api/register", "/api/ping"} =>
             \A p \in PingPosts :
               ( /\ p[1] = Undefined \/ p[1] # env.API_KEY
                 /\ RegisterOf(p) \/ PingOf(p) )
               => /\ resp'.status = 401
                  /\ UNCHANGED <<connectedPis, objectUrl, inflight>>
        /\ \A h \in ForwardHeaders :
             ( /\ h[1] = Undefined \/ h[1] # env.API_KEY
               /\ ApiAlexa(h[1], h[2]) )
             => /\ resp' = Unauthorized("/api/alexa")
                /\ UNCHANGED <<connectedPis, objectUrl, inflight>>
      ]_vars

\* A server without API_KEY has answered 401 to a forward request
C12_Witness ==
    /\ resp.route = "/api/alexa" /\ resp.status = 401
    /\ env.API_KEY = Undefined

\* C13: while forwards are awaited, register, ping, health, further forward
\* requests (up to MaxPending) and the sweep are enabled and take their
\* effect with the awaited forwards still pending, and every entry of the
\* registry has all three of its fields.
C13_HandlersRunWhilePending ==
    /\ \A c \in Keys :
         /\ Truthy(connectedPis[c].url)
         /\ Truthy(connectedPis[c].name)
         /\ connectedPis[c].lastSeen \in 0..now
    /\ inflight # EmptyBag =>
         /\ ENABLED (Health /\ resp'.status = 200 /\ inflight' = inflight)
         /\ ENABLED (Sweep /\ swept' /\ inflight' = inflight
                     /\ \A c \in Keys : Stale(connectedPis[c]) => ~HasOwn(c)')
         /\ \A p \in PendingPosts :
              /\ ENABLED (RegisterOf(p) /\ inflight' = inflight
                          /\ (env.API_KEY = "secret" =>
                                connectedPis'[p[2].clientId] =
                                    [url |-> p[2].url, name |-> "Unnamed Pi",
                                     lastSeen |-> now]))
              /\ ENABLED (PingOf(p) /\ inflight' = inflight
                          /\ (env.API_KEY = "secret" =>
                                /\ connectedPis'[p[2].clientId].url = p[2].url
                                /\ connectedPis'[p[2].clientId].lastSeen = now))
         /\ BagCardinality(inflight) < MaxPending =>
              /\ ENABLED (\E h \in PendingHeaders :
                            /\ ApiAlexaWithin(MaxPending, h[1], h[2])
                            /\ env.API_KEY = "secret" =>
                                 BagCardinality(inflight') = BagCardinality(inflight) + 1)
              /\ ENABLED (\E r \in PendingRequests :
                            /\ AlexaWithin(MaxPending, r)
                            /\ BagCardinality(inflight') = BagCardinality(inflight) + 1)

\* A register has succeeded while two forwards were awaited, one of each
\* route
C13_Witness ==
    /\ ApiForwards # {} /\ AlexaForwards # {}
    /\ resp.route = "/api/register" /\ resp.status = 200

\* C14: the timer callback can run in every state, and under fairness of
\* the timer and of the clock every entry last seen early enough for the
\* clock to pass its threshold (lastSeen + staleThreshold < MaxTime) is
\* eventually removed, unless a later contact moves its lastSeen.
C14_UncontactedEventuallyEvicted ==
    /\ [](ENABLED Sweep)
    /\ \A c \in {"default", "pi-2"} :
         \A t \in 0..(MaxTime - staleThreshold - 1) :
           (HasOwn(c) /\ connectedPis[c].lastSeen = t)
             ~> (~HasOwn(c) \/ connectedPis[c].lastSeen # t)

\* The sweep has run past the threshold of the first registrations: one
\* device is gone while the other, contacted since, is still registered
C14_Witness ==
    /\ swept /\ now > staleThreshold
    /\ ~HasOwn("default")
    /\ HasOwn("pi-2") /\ connectedPis["pi-2"].lastSeen > 0

\* C15: a request to POST /alexa starts a forward exactly when it is an
\* IntentRequest named OpenCameraIntent, CloseCameraIntent or
\* ShowAllCamerasIntent; every other request is answered without a forward,
\* and among the requests that name an intent the response ends the session,
\* saying "Goodbye!", exactly for AMAZON.CancelIntent and AMAZON.StopIntent.
C15_ForwardOnlyCameraIntents ==
    [][ /\ \A r \in AssistantRequests :
             Alexa(r) =>
               LET named == r.type = "IntentRequest" /\ r.intent # Undefined
                   camera == named /\ r.intent \in {"OpenCameraIntent",
                                 "CloseCameraIntent", "ShowAllCamerasIntent"}
                   goodbye == r.intent \in {"AMAZON.CancelIntent",
                                            "AMAZON.StopIntent"}
               IN  /\ inflight' # inflight <=> camera
                   /\ camera => /\ BagCardinality(inflight') =
                                      BagCardinality(inflight) + 1
                                /\ resp' = NoResponse
                   /\ (named /\ ~camera) =>
                        /\ resp'.shouldEndSession <=> goodbye
                        /\ resp'.text = "Goodbye!" <=> goodbye
        /\ \A f \in AlexaForwards :
             (AlexaSuccess(f) \/ AlexaFail(f)) =>
                /\ ~resp'.shouldEndSession
                /\ resp'.text # "Goodbye!"
                /\ BagCardinality(inflight') = BagCardinality(inflight) - 1
      ]_vars

\* The stop or cancel intent has been answered with the end of the session
C15_Witness == resp = AlexaReply(200, "Goodbye!", TRUE)

\* C16: for each of the three camera intents the forwarded
\* payload is {intent, slots: S} with S exactly the populated ones of the
\* four known slots of the request.
C16_PayloadHasPopulatedKnownSlots ==
    [][ \A r \in AssistantRequests :
          ( /\ r.intent \in {"OpenCameraIntent", "CloseCameraIntent",
                             "ShowAllCamerasIntent"}
            /\ Alexa(r) )
          => LET populated ==
                   {k \in {"CameraNumber", "FirstCamera", "SecondCamera",
                           "AllCameras"} : r.slots[k] \notin {Undefined, ""}}
             IN  \E f \in BagToSet(inflight') :
                   /\ inflight' = inflight (+) SetToBag({f})
                   /\ f.intentData.intent = r.intent
                   /\ f.intentData.slots = [k \in populated |-> r.slots[k]]
      ]_vars

\* C17: after a successful forward the speech follows from the payload
\* alone: with CameraNumber "Displaying/Hiding camera {n}.", whatever the
\* other slots; else with both FirstCamera and SecondCamera
\* "Displaying/Hiding cameras {a} and {b}."; else "Displaying/Hiding all
\* cameras."; and for ShowAllCamerasIntent always "Displaying all cameras.".
C17_SpeechRules ==
    [][ \A f \in AlexaForwards :
          AlexaSuccess(f) =>
            LET i == f.intentData.intent
                S == f.intentData.slots
                single == "CameraNumber" \in DOMAIN S
                pair == {"FirstCamera", "SecondCamera"} \subseteq DOMAIN S
                verb == IF i = "OpenCameraIntent" THEN "Displaying" ELSE "Hiding"
            IN  /\ resp'.status = 200
                /\ i = "ShowAllCamerasIntent" =>
                     resp'.text = "Displaying all cameras."
                /\ i \in {"OpenCameraIntent", "CloseCameraIntent"} =>
                     /\ single =>
                          resp'.text = verb \o " camera " \o S["CameraNumber"] \o "."
                     /\ (~single /\ pair) =>
                          resp'.text = verb \o " cameras " \o S["FirstCamera"]
                                       \o " and " \o S["SecondCamera"] \o "."
                     /\ (~single /\ ~pair) =>
                          resp'.text = verb \o " all cameras."
      ]_vars

\* A close-camera intent for a pair of cameras has been confirmed
C17_Witness == resp = AlexaReply(200, "Hiding cameras 1 and 2.", FALSE)

\* C18: the completion of a forward never creates an entry: an id without
\* entry when a forward succeeds has none afterwards, and an id gets an
\* entry only in a successful register or ping step that carries a url.
C18_CompletionNeverCreates ==
    [][ /\ \A f \in ApiForwards, status \in BackendStatuses :
             ApiAlexaSuccess(f, status) =>
                \A c \in RegistryKeys : HasOwn(c)' => HasOwn(c)
        /\ \A f \in AlexaForwards :
             AlexaSuccess(f) =>
                \A c \in RegistryKeys : HasOwn(c)' => HasOwn(c)
        /\ \A c \in RegistryKeys :
             (~HasOwn(c) /\ HasOwn(c)') =>
                /\ resp'.route \in {"/api/register", "/api/ping"}
                /\ resp'.status = 200
                /\ \E p \in PingPosts :
                     /\ p[2].clientId = c
                     /\ Truthy(p[2].url)
                     /\ RegisterOf(p) \/ PingOf(p)
      ]_vars

\* A generic forward has succeeded after the sweep emptied the registry
C18_Witness ==
    /\ resp.route = "/api/alexa" /\ resp.status = 200
    /\ Keys = {} /\ swept /\ now > staleThreshold

\* C19: an entry whose last contact is no older than staleThreshold is
\* retained by every step, the sweep included; an entry exactly
\* staleThreshold old is not evicted.
C19_FreshEntryRetained ==
    [][ \A c \in ClientIds :
          (HasOwn(c) /\ now - connectedPis[c].lastSeen <= staleThreshold)
          => HasOwn(c)'
      ]_vars

\* An entry refreshed one threshold after the start is still registered
\* after the sweep that finds it exactly staleThreshold old
C19_Witness ==
    /\ swept /\ now = 2 * staleThreshold
    /\ HasOwn("default")
    /\ connectedPis["default"].lastSeen = staleThreshold

\* C20: a successful generic forward leaves lastSeen of its client's entry
\* as it was when the url of that entry at completion is not the url the
\* forward was sent to.
C20_RefreshOnlySameAddress ==
    [][ \A f \in ApiForwards, status \in BackendStatuses :
          ( /\ ApiAlexaSuccess(f, status)
            /\ HasOwn(f.clientId)
            /\ connectedPis[f.clientId].url # f.url )
          => connectedPis'[f.clientId].lastSeen =
                 connectedPis[f.clientId].lastSeen
      ]_vars

====
